---- MODULE Spec2Model ----
(***************************************************************************)
(* Hash_DRBG (SP800-90 Hash based PRNG) of icc/fips-prng.                  *)
(*                                                                         *)
(* SHA_Instantiate, SHA_ReSeed, SHA_Generate, SHA_Cleanup and Hash_df are  *)
(* translated from SP800-90HashData.c.  The dispatch layer that the        *)
(* profile records name (Inst, Res, Gen, Cln), the byte stack (ds.h) and   *)
(* the helpers Add and uint2BS (utils.h) are not part of that file; they   *)
(* are modelled from the specification's sections 4.2, 4.3, 4.5 and 7.     *)
(*                                                                         *)
(* The profile is scaled: seedlen, the digest length, the request limit    *)
(* and the reseed interval are small, all arithmetic stays byte-wise.      *)
(***************************************************************************)
EXTENDS Integers, Sequences, FiniteSets, TLC

\* ---------------------------------------------------------------- bounds
\* prng->seedlen of the scaled profile (bytes); at least 4, the width of
\* the reseed counter that is added into V.
SeedLen == 5
\* prng->OBL, the digest length of the scaled profile (bytes).
DigestLen == 2
\* prng->max bytes per request of the scaled profile.
MaxBytes == 5
\* prng->max calls between reseeds of the scaled profile.
ReseedInterval == 2
\* How many Instantiate and Reseed calls together a behaviour may hold.
MaxSeed == 2
\* How many Generate calls a behaviour may hold; one more than the reseed
\* interval.
MaxGen == 3
\* Guard bytes behind the caller's buffer.
Slack == 2

\* ------------------------------------------------------------- constants
C00 == <<0>>
C01 == <<1>>
C02 == <<2>>
C03 == <<3>>

NULL == "NULL"
SP800_90ERROR == "ERROR"
UNINITIALISED == "UNINITIALISED"
READY == "READY"
RESEED_REQUIRED == "RESEED_REQUIRED"
Modes == {UNINITIALISED, READY, RESEED_REQUIRED, SP800_90ERROR}

\* Return codes of the dispatch layer that are not modes.
RESEED_NEEDED == "RESEED_NEEDED"
STATE_INVALID == "STATE_INVALID"
REQUEST_TOO_LARGE == "REQUEST_TOO_LARGE"

\* ----------------------------------------------------------------- bytes
RECURSIVE Zeros(_)
Zeros(n) == IF n = 0 THEN <<>> ELSE <<0>> \o Zeros(n - 1)

\* memset(dst, 0, n)
memset0(dst, n) == Zeros(n) \o SubSeq(dst, n + 1, Len(dst))

\* memcpy(dst + off, src, n) on the memory dst stands for; octets that would
\* land behind the modelled memory are not kept.
memcpy(dst, off, src, n) ==
  LET m == IF off + n > Len(dst) THEN Len(dst) - off ELSE n
  IN  SubSeq(dst, 1, off) \o SubSeq(src, 1, m) \o SubSeq(dst, off + m + 1, Len(dst))

\* uint2BS: a 32 bit value as 4 octets, most significant first.
uint2BS(x) ==
  << (x \div 16777216) % 256, (x \div 65536) % 256, (x \div 256) % 256, x % 256 >>

RECURSIVE AddFrom(_, _, _, _)
AddFrom(a, b, i, carry) ==
  IF i = 0 THEN a
  ELSE LET s == a[i] + b[i] + carry
       IN  AddFrom([a EXCEPT ![i] = s % 256], b, i - 1, s \div 256)

\* Add(dst, a, alen, b, blen): dst = (a + b) mod 2^(8*alen), both big endian;
\* blen = 0 says b is alen octets long, otherwise b is blen octets long and
\* tail aligned.  The final carry is dropped.
Add(a, alen, b, blen) ==
  LET bl  == IF blen = 0 THEN alen ELSE blen
      pad == Zeros(alen - bl) \o SubSeq(b, 1, bl)
  IN  AddFrom(SubSeq(a, 1, alen), pad, alen, 0)

\* ---------------------------------------------------------------- digest
\* The hash primitive is external; it is modelled as an incremental digest
\* with a 16 bit chaining value that depends on every octet and its place.
H0 == 40503

Absorb(h, b) == (h * 31 + b + 1) % 65521

RECURSIVE AbsorbAll(_, _)
AbsorbAll(h, s) ==
  IF s = <<>> THEN h ELSE AbsorbAll(Absorb(h, Head(s)), Tail(s))

SqueezeOctet(h, i) == ((h * (2 * i + 1)) \div 7 + 13 * i) % 256

RECURSIVE SqueezeFrom(_, _)
SqueezeFrom(h, i) ==
  IF i > DigestLen THEN <<>> ELSE <<SqueezeOctet(h, i)>> \o SqueezeFrom(h, i + 1)

Squeeze(h) == SqueezeFrom(h, 1)

\* HASH of a whole octet string.
HASH(s) == Squeeze(AbsorbAll(H0, s))

\* ------------------------------------------------------------ byte stack
\* A fragment is a borrowed (pointer, length) pair: ref names the object the
\* pointer refers to ("lit" for caller data that no step of the call writes,
\* "V" for pctx->V, "counter" for Hash_df's local counter); the octets are
\* read through the pointer when a fragment is digested, never copied.
Frag(ref, n, bytes) == [ref |-> ref, len |-> n, bytes |-> bytes]

DS_Init == [frags |-> <<>>, cur |-> 1, total |-> 0]

DS_Append(ds, n, f) ==
  [ds EXCEPT !.frags = Append(@, Frag(f.ref, n, f.bytes)), !.total = @ + n]

DS_Insert(ds, n, f) ==
  [ds EXCEPT !.frags = <<Frag(f.ref, n, f.bytes)>> \o @, !.total = @ + n]

RECURSIVE SumLen(_)
SumLen(fs) == IF fs = <<>> THEN 0 ELSE Head(fs).len + SumLen(Tail(fs))

DS_Reset(ds) == [ds EXCEPT !.cur = 1, !.total = SumLen(ds.frags)]

\* DS_Extract: the fragment under the cursor and the stack behind it.
DS_Extract(ds) ==
  [frag |-> ds.frags[ds.cur],
   ds   |-> [ds EXCEPT !.cur = @ + 1, !.total = @ - ds.frags[ds.cur].len]]

Lit(bytes) == [ref |-> "lit", bytes |-> bytes]
Ptr(ref) == [ref |-> ref, bytes |-> <<>>]

\* The octets a fragment points at, read now.
Deref(p, counter, f) ==
  CASE f.ref = "V"       -> SubSeq(p.V, 1, f.len)
    [] f.ref = "counter" -> <<counter>>
    [] OTHER             -> SubSeq(f.bytes, 1, f.len)

\* ---------------------------------------------------- digest primitives
\* p is the PRNG context plus the bookkeeping of one call: ndig counts the
\* digest primitive calls made, failAt names the call that returns failure
\* (0: none), nullUse counts primitive calls made on a NULL md_ctx, whose
\* outcome (ub) is the caller's choice, rc is the last primitive's result and
\* hashed lists, one entry per EVP_DigestInit, the octets digested since.
Step(p) ==
  [p EXCEPT !.ndig = @ + 1,
            !.nullUse = IF p.md_ctx.live THEN @ ELSE @ + 1,
            !.rc = IF p.md_ctx.live
                   THEN (IF p.ndig + 1 = p.failAt THEN 0 ELSE 1)
                   ELSE (IF p.ub THEN 1 ELSE 0),
            !.failed = @ \/ (p.md_ctx.live /\ p.ndig + 1 = p.failAt)]

EVP_DigestInit(p) ==
  LET q == Step(p)
  IN  IF q.rc = 1
      THEN [q EXCEPT !.md_ctx.h = H0, !.hashed = Append(@, <<>>)]
      ELSE q

EVP_DigestUpdate(p, bytes) ==
  LET q == Step(p)
  IN  IF q.rc = 1
      THEN [q EXCEPT !.md_ctx.h = AbsorbAll(@, bytes),
                     !.hashed = IF @ = <<>> THEN <<bytes>>
                                ELSE [@ EXCEPT ![Len(@)] = @ \o bytes]]
      ELSE q

\* EVP_DigestFinal(ctx, dst, &l): DigestLen octets at the start of dst.
EVP_DigestFinal(p, dst) ==
  LET q == Step(p)
  IN  IF q.rc = 1
      THEN [q EXCEPT ![dst] = memcpy(@, 0, Squeeze(q.md_ctx.h), DigestLen)]
      ELSE q

EVP_MD_CTX_reset(p) == [p EXCEPT !.md_ctx.h = 0]

\* EVP_MD_CTX_new and EVP_MD_CTX_free: news and frees count the contexts a
\* call has allocated and released.  EVP_MD_CTX_free leaves the handle to
\* its caller.
EVP_MD_CTX_new(p) ==
  [p EXCEPT !.md_ctx = [live |-> TRUE, h |-> 0], !.news = @ + 1]

EVP_MD_CTX_free(p) == [p EXCEPT !.frees = @ + 1]

\* ERRAT without the assignment to pctx->state.
ERRAT_KeepState(p, why) ==
  [p EXCEPT !.error_reason = why, !.md_ctx.h = 0]

\* The error return every failed primitive takes.
ERRAT(p, why) ==
  EVP_MD_CTX_reset([p EXCEPT !.error_reason = why, !.state = SP800_90ERROR])

Min(a, b) == IF a < b THEN a ELSE b

\* The steps of a method, each with its error return.  A method returns at
\* its first failed primitive: once rc is not 1 the steps behind it are not
\* taken.
Chk(q, why) == IF q.rc # 1 THEN ERRAT(q, why) ELSE q

DoInit(p, why) == IF p.rc # 1 THEN p ELSE Chk(EVP_DigestInit(p), why)

DoUpdate(p, bytes, why) ==
  IF p.rc # 1 THEN p ELSE Chk(EVP_DigestUpdate(p, bytes), why)

\* EVP_DigestUpdate(ctx, pctx->V, seedlen) and the same of pctx->T.
DoUpdateV(p, why) ==
  IF p.rc # 1 THEN p ELSE Chk(EVP_DigestUpdate(p, SubSeq(p.V, 1, SeedLen)), why)

DoUpdateT(p, why) ==
  IF p.rc # 1 THEN p ELSE Chk(EVP_DigestUpdate(p, SubSeq(p.T, 1, SeedLen)), why)

\* EVP_DigestFinal into dst and, when it succeeded, EVP_MD_CTX_reset.
DoFinal(p, dst, why) ==
  IF p.rc # 1 THEN p
  ELSE IF EVP_DigestFinal(p, dst).rc # 1
       THEN ERRAT(EVP_DigestFinal(p, dst), why)
       ELSE EVP_MD_CTX_reset(EVP_DigestFinal(p, dst))

\* --------------------------------------------------------------- Hash_df
\* while(in->total) { DS_Extract; EVP_DigestUpdate }
RECURSIVE HashDfUpdates(_, _, _)
HashDfUpdates(p, ds, counter) ==
  IF p.rc # 1 \/ ds.total = 0 THEN p
  ELSE HashDfUpdates(
         DoUpdate(p, Deref(p, counter, DS_Extract(ds).frag), "Digest Init failed"),
         DS_Extract(ds).ds, counter)

\* One round's digest: T = Hash(counter || no_of_bits || input).
HashDfDigest(p, in, counter) ==
  DoFinal(HashDfUpdates(DoInit(p, "Digest Init failed"), DS_Reset(in), counter),
          "T", "Digest Final failed")

\* The copy of a whole digest block, whatever is left to derive.
HashDfCopy_Whole(p, out, off, outl) ==
  [p EXCEPT ![out] = memcpy(@, off, p.T, DigestLen)]

\* j = (outl > digestL) ? digestL : outl; memcpy(out, pctx->T, j)
HashDfCopy(p, out, off, outl) ==
  [p EXCEPT ![out] = memcpy(@, off, p.T, Min(outl, DigestLen))]

HashDfRound(p, in, out, off, outl, counter) ==
  IF HashDfDigest(p, in, counter).rc # 1 THEN HashDfDigest(p, in, counter)
  ELSE HashDfCopy(HashDfDigest(p, in, counter), out, off, outl)

\* while(outl > 0) { ... }, then memset(pctx->T, 0, digestL)
RECURSIVE HashDfLoop(_, _, _, _, _, _, _)
HashDfLoop(p, in, out, off, outl, counter, digestL) ==
  IF p.rc # 1 THEN p
  ELSE IF outl = 0 THEN [p EXCEPT !.T = memset0(@, digestL)]
  ELSE HashDfLoop(HashDfRound(p, in, out, off, outl, counter),
                  in, out, off + Min(outl, DigestLen),
                  outl - Min(outl, DigestLen), (counter + 1) % 256, DigestLen)

\* uint2BS(outl*8, outbits); DS_Insert(in, 4, outbits); DS_Insert(in, 1, &counter)
HashDfIn(in, outl) ==
  DS_Insert(DS_Insert(in, 4, Lit(uint2BS(outl * 8))), 1, Ptr("counter"))

Hash_df(p, in, out, outl) ==
  HashDfLoop([p EXCEPT !.rc = 1], HashDfIn(in, outl), out, 0, outl, 1, 0)

\* ------------------------------------------------------- SHA_Instantiate
\* The seed material with nonce and entropy input in each other's place.
InstSeedDS_Swapped(ein, nonce, person) ==
  [frags |-> << Frag("lit", Len(nonce), nonce), Frag("lit", Len(ein), ein),
               Frag("lit", Len(person), person) >>,
   cur |-> 1, total |-> Len(ein) + Len(nonce) + Len(person)]

\* seedDS = ein || nonce || person, and seedDS = 0x00 || V
InstSeedDS(ein, nonce, person) ==
  DS_Append(DS_Append(DS_Append(DS_Init, Len(ein), Lit(ein)),
                      Len(nonce), Lit(nonce)), Len(person), Lit(person))

ConstDS == DS_Append(DS_Append(DS_Init, 1, Lit(C00)), SeedLen, Ptr("V"))

\* SHA_Instantiate that allocates a digest context whatever it holds.
InstCtx_Always(p) == EVP_MD_CTX_new(p)

\* if (NULL == pctx->ctx.md_ctx) pctx->ctx.md_ctx = EVP_MD_CTX_new()
InstCtx(p) == IF ~p.md_ctx.live THEN EVP_MD_CTX_new(p) ELSE p

InstDerive(p, ein, nonce, person) ==
  Hash_df(Hash_df(InstCtx(p), InstSeedDS(ein, nonce, person), "V", SeedLen),
          ConstDS, "C", SeedLen)

\* SHA_Instantiate that allocates the digest context before it looks at
\* the digest it obtained.
SHA_Instantiate_AllocFirst(p, ein, nonce, person, resolvable) ==
  IF ~resolvable
  THEN InstCtx([p EXCEPT !.V = memset0(@, SeedLen), !.alg_md = "NULL",
                         !.error_reason = "Could not obtain digest",
                         !.state = "ERROR"])
  ELSE InstDerive([p EXCEPT !.V = memset0(@, SeedLen), !.alg_md = "md"],
                  ein, nonce, person)

\* resolvable: whether EVP_get_digestbyname finds prng->specific.
SHA_Instantiate(p, ein, nonce, person, resolvable) ==
  IF ~resolvable
  THEN [p EXCEPT !.V = memset0(@, SeedLen), !.alg_md = NULL,
                 !.error_reason = "Could not obtain digest",
                 !.state = SP800_90ERROR]
  ELSE InstDerive([p EXCEPT !.V = memset0(@, SeedLen), !.alg_md = "md"],
                  ein, nonce, person)

\* ------------------------------------------------------------ SHA_ReSeed
\* seedDS = 0x01 || V || ein || adata
ReSeedDS(ein, adata) ==
  DS_Append(DS_Append(DS_Append(DS_Append(DS_Init, 1, Lit(C01)),
                                SeedLen, Ptr("V")),
                      Len(ein), Lit(ein)), Len(adata), Lit(adata))

\* SHA_ReSeed without the copy of the scratch into V.
ReSeedCopy_None(p) == p

\* memcpy(pctx->V, pctx->C, seedlen)
ReSeedCopy(p) == [p EXCEPT !.V = memcpy(@, 0, p.C, SeedLen)]

SHA_ReSeed(p, ein, adata) ==
  Hash_df(ReSeedCopy(Hash_df(p, ReSeedDS(ein, adata), "C", SeedLen)),
          ConstDS, "C", SeedLen)

\* ---------------------------------------------------------- SHA_Generate
\* pctx->CallCount.c: the reseed counter as 4 octets, most significant first.
CallCount_c(p) == uint2BS(p.CallCount)

\* The additional input of a call: a pointer (NULL or not), its octets and
\* the length the caller states.
Adata(ptr, bytes) == [ptr |-> ptr, bytes |-> bytes, len |-> Len(bytes)]

\* The mixing with w left out of V.
GenAddW_None(p) == p

\* if ((NULL != adata) && (0 != adatal)) { w = Hash(0x02 || V || adata); V += w }
GenAddW(p) ==
  IF p.rc # 1 THEN p ELSE [p EXCEPT !.V = Add(p.V, SeedLen, p.T, DigestLen)]

GenAddInput(p, adata) ==
  IF ~(adata.ptr # NULL /\ adata.len # 0) THEN p
  ELSE GenAddW(
         DoFinal(
           DoUpdate(
             DoUpdateV(
               DoUpdate(DoInit(p, "Digest Init failed"), C02, "Digest Update failed"),
               "Digest Update failed"),
             SubSeq(adata.bytes, 1, adata.len), "Digest Update failed"),
           "T", "Digest Final failed"))

\* j = (blen > l) ? l : blen
GenChunk(blen, l) == IF blen > l THEN l ELSE blen

\* The round with the whole digest block copied to the caller, whatever is
\* left of the request.
GenEmit_Direct(p, off, blen) ==
  IF p.rc # 1 THEN p
  ELSE [p EXCEPT !.T = Add(p.T, SeedLen, <<1>>, 1),
                 !.buffer = memcpy(@, off, p.eBuf, DigestLen),
                 !.wr = @ \cup ((off + 1)..(off + DigestLen)),
                 !.copies = Append(@, DigestLen)]

\* The round that counts V itself up and leaves the scratch copy alone.
GenEmit_AdvanceV(p, off, blen) ==
  IF p.rc # 1 THEN p
  ELSE [p EXCEPT !.V = Add(p.V, SeedLen, <<1>>, 1),
                 !.buffer = memcpy(@, off, p.eBuf, GenChunk(blen, DigestLen)),
                 !.wr = @ \cup ((off + 1)..(off + GenChunk(blen, DigestLen))),
                 !.copies = Append(@, GenChunk(blen, DigestLen))]

\* One round of the loop: eBuf = Hash(T); T = T + 1; memcpy(buffer, eBuf, j).
\* buffer is the caller's memory from the destination pointer on, off the
\* distance the pointer has moved; wr and copies record what was written.
GenEmit(p, off, blen) ==
  IF p.rc # 1 THEN p
  ELSE [p EXCEPT !.T = Add(p.T, SeedLen, C01, 1),
                 !.buffer = memcpy(@, off, p.eBuf, GenChunk(blen, DigestLen)),
                 !.wr = @ \cup ((off + 1)..(off + GenChunk(blen, DigestLen))),
                 !.copies = Append(@, GenChunk(blen, DigestLen))]

GenRound(p, off, blen) ==
  GenEmit(
    DoFinal(
      DoUpdateT(DoInit(p, "Digest Init failed"), "Digest Update failed"),
      "eBuf", "Digest Final failed"),
    off, blen)

\* while(blen > 0) { ... }
RECURSIVE GenLoop(_, _, _)
GenLoop(p, off, blen) ==
  IF p.rc # 1 \/ blen = 0 THEN p
  ELSE GenLoop(GenRound(p, off, blen),
               off + GenChunk(blen, DigestLen), blen - GenChunk(blen, DigestLen))

\* The update with H taken as seedlen octets wide, head aligned.
GenAddHC_WideH(p) ==
  IF p.rc # 1 THEN p
  ELSE [p EXCEPT
          !.V = Add(Add(Add(p.V, SeedLen, p.T, 0), SeedLen, p.C, 0),
                    SeedLen, CallCount_c(p), 4),
          !.T = memset0(@, SeedLen)]

\* V = V + H + C + reseed_counter, with T cleared before the last addition.
GenAddHC(p) ==
  IF p.rc # 1 THEN p
  ELSE [p EXCEPT
          !.V = Add(Add(Add(p.V, SeedLen, p.T, DigestLen), SeedLen, p.C, 0),
                    SeedLen, CallCount_c(p), 4),
          !.T = memset0(@, SeedLen)]

\* memset(T, 0, seedlen); H = Hash(0x03 || V) in T; V = V + H + C + reseed_counter
GenUpdate(p) ==
  IF p.rc # 1 THEN p
  ELSE GenAddHC(
         DoFinal(
           DoUpdateV(
             DoUpdate(DoInit([p EXCEPT !.T = memset0(@, SeedLen)], "Digest Init failed"),
                      C03, "Digest Update failed"),
             "Digest Update failed"),
           "T", "Digest Final failed"))

\* SHA_Generate without the copy: the loop hashes what T held before.
GenCopyV_None(p) == p

\* memcpy(pctx->T, pctx->V, seedlen) before the loop.
GenCopyV(p) ==
  IF p.rc # 1 THEN p ELSE [p EXCEPT !.T = memcpy(@, 0, p.V, SeedLen)]

SHA_Generate(p, blen, adata) ==
  GenUpdate(GenLoop(GenCopyV(GenAddInput([p EXCEPT !.rc = 1], adata)), 0, blen))

\* ----------------------------------------------------------- SHA_Cleanup
\* SHA_Cleanup that keeps the digest context.
SHA_Cleanup_Leak(p) == p

\* if (NULL != md_ctx) { EVP_MD_CTX_free(md_ctx); md_ctx = NULL; }
SHA_Cleanup(p) ==
  IF p.md_ctx.live
  THEN [EVP_MD_CTX_free(p) EXCEPT !.md_ctx = [live |-> FALSE, h |-> 0]]
  ELSE p

\* -------------------------------------------------------- dispatch layer
\* Inst, Res, Gen and Cln of the profile records: the state checks, the
\* reseed counter and the scrubbing that surround the SHA_ methods.  ret is
\* the state code handed back to the caller.
\* Inst that starts the reseed counter at 0.
Inst_ZeroCount(p, ein, nonce, person, resolvable) ==
  IF p.state = "ERROR" THEN [p EXCEPT !.ret = "STATE_INVALID"]
  ELSE IF SHA_Instantiate(p, ein, nonce, person, resolvable).state = "ERROR"
       THEN [SHA_Instantiate(p, ein, nonce, person, resolvable) EXCEPT !.ret = "ERROR"]
       ELSE [SHA_Instantiate(p, ein, nonce, person, resolvable) EXCEPT
               !.CallCount = 0, !.state = "READY", !.ret = "READY"]

Inst(p, ein, nonce, person, resolvable) ==
  IF p.state = SP800_90ERROR THEN [p EXCEPT !.ret = STATE_INVALID]
  ELSE
    LET q == SHA_Instantiate(p, ein, nonce, person, resolvable)
    IN  IF q.state = SP800_90ERROR THEN [q EXCEPT !.ret = SP800_90ERROR]
        ELSE [q EXCEPT !.CallCount = 1, !.state = READY, !.ret = READY]

\* Res without the check of the mode.
Res_NoGate(p, ein, adata) ==
  IF SHA_ReSeed(p, ein, adata).state = "ERROR"
  THEN [SHA_ReSeed(p, ein, adata) EXCEPT !.ret = "ERROR"]
  ELSE [SHA_ReSeed(p, ein, adata) EXCEPT
          !.CallCount = 1, !.state = "READY", !.ret = "READY"]

Res(p, ein, adata) ==
  IF p.state \in {UNINITIALISED, SP800_90ERROR} THEN [p EXCEPT !.ret = STATE_INVALID]
  ELSE
    LET q == SHA_ReSeed(p, ein, adata)
    IN  IF q.state = SP800_90ERROR THEN [q EXCEPT !.ret = SP800_90ERROR]
        ELSE [q EXCEPT !.CallCount = 1, !.state = READY, !.ret = READY]

\* What Gen does once it has let a call through, the mode flipping when the
\* counter exceeds limit.
GenRun(p, blen, adata, limit) ==
  IF SHA_Generate(p, blen, adata).state = "ERROR"
  THEN [SHA_Generate(p, blen, adata) EXCEPT !.ret = "ERROR"]
  ELSE [SHA_Generate(p, blen, adata) EXCEPT
          !.CallCount = @ + 1,
          !.state = IF p.CallCount + 1 > limit THEN "RESEED_REQUIRED" ELSE "READY",
          !.ret = "READY"]

\* Gen that checks only for RESEED_REQUIRED before it generates.
Gen_NoGate(p, blen, adata) ==
  IF p.state = "RESEED_REQUIRED" THEN [p EXCEPT !.ret = "RESEED_NEEDED"]
  ELSE IF blen > MaxBytes THEN [p EXCEPT !.ret = "REQUEST_TOO_LARGE"]
  ELSE GenRun(p, blen, adata, ReseedInterval)

\* Gen that checks the request length after it has generated.
Gen_SizeLate(p, blen, adata) ==
  IF p.state = "RESEED_REQUIRED" THEN [p EXCEPT !.ret = "RESEED_NEEDED"]
  ELSE IF p.state # "READY" THEN [p EXCEPT !.ret = "STATE_INVALID"]
  ELSE IF blen > MaxBytes
       THEN [GenRun(p, blen, adata, ReseedInterval) EXCEPT !.ret = "REQUEST_TOO_LARGE"]
       ELSE GenRun(p, blen, adata, ReseedInterval)

\* Gen that asks for a reseed one call late.
Gen_LateFlip(p, blen, adata) ==
  IF p.state = "RESEED_REQUIRED" THEN [p EXCEPT !.ret = "RESEED_NEEDED"]
  ELSE IF p.state # "READY" THEN [p EXCEPT !.ret = "STATE_INVALID"]
  ELSE IF blen > MaxBytes THEN [p EXCEPT !.ret = "REQUEST_TOO_LARGE"]
  ELSE GenRun(p, blen, adata, ReseedInterval + 1)

Gen(p, blen, adata) ==
  IF p.state = RESEED_REQUIRED THEN [p EXCEPT !.ret = RESEED_NEEDED]
  ELSE IF p.state # READY THEN [p EXCEPT !.ret = STATE_INVALID]
  ELSE IF blen > MaxBytes THEN [p EXCEPT !.ret = REQUEST_TOO_LARGE]
  ELSE
    LET q == SHA_Generate(p, blen, adata)
    IN  IF q.state = SP800_90ERROR THEN [q EXCEPT !.ret = SP800_90ERROR]
        ELSE [q EXCEPT !.CallCount = @ + 1,
                       !.state = IF q.CallCount + 1 > ReseedInterval
                                 THEN RESEED_REQUIRED ELSE READY,
                       !.ret = READY]

Cln(p) ==
  LET q == SHA_Cleanup(p)
  IN  [q EXCEPT !.V = Zeros(SeedLen), !.C = Zeros(SeedLen),
                !.T = Zeros(SeedLen), !.eBuf = Zeros(DigestLen),
                !.state = UNINITIALISED, !.ret = UNINITIALISED]

\* ----------------------------------------------------------------- state
\* V .. error_reason are the fields of the instance.  last remembers the
\* last call, seededBy and gens the operation that seeded the instance last
\* and the Generate calls that succeeded since, nSeed and nGen count the
\* calls of a behaviour.
VARIABLES V, C, T, eBuf, state, CallCount, md_ctx, alg_md, error_reason,
          last, seededBy, gens, nSeed, nGen

vars == <<V, C, T, eBuf, state, CallCount, md_ctx, alg_md, error_reason,
          last, seededBy, gens, nSeed, nGen>>

\* The instance as the methods see it.
Pctx ==
  [V |-> V, C |-> C, T |-> T, eBuf |-> eBuf, state |-> state,
   CallCount |-> CallCount, md_ctx |-> md_ctx, alg_md |-> alg_md,
   error_reason |-> error_reason]

\* The caller's destination: blen octets and the memory behind them.
Sentinel == 170
RECURSIVE Fill(_, _)
Fill(n, b) ==
  IF n = 0 THEN <<>>
  ELSE IF n = 1 THEN <<b>>
  ELSE Fill(n \div 2, b) \o Fill(n - n \div 2, b)

CallerBuffer(blen) == Fill(blen + Slack, Sentinel)

\* One call on instance i: the instance, the caller's buffer and the call's
\* bookkeeping.
CallOf(i, blen, failAt, ub) ==
  [V |-> i.V, C |-> i.C, T |-> i.T, eBuf |-> i.eBuf, state |-> i.state,
   CallCount |-> i.CallCount, md_ctx |-> i.md_ctx, alg_md |-> i.alg_md,
   error_reason |-> i.error_reason,
   buffer |-> CallerBuffer(blen), wr |-> {}, copies |-> <<>>,
   ndig |-> 0, failAt |-> failAt, nullUse |-> 0, ub |-> ub, rc |-> 1,
   failed |-> FALSE, hashed |-> <<>>, news |-> 0, frees |-> 0, ret |-> ""]

Call(blen, failAt, ub) == CallOf(Pctx, blen, failAt, ub)

NoAdata == Adata(NULL, <<>>)

\* What is remembered of the last call: its arguments, its return code, what
\* it did to the caller's buffer, the messages it digested, the digest
\* contexts it allocated and released and, in heap, how many contexts are
\* allocated and not released since the instance was made.
Record(op, q, ein, nonce, person, adata, n, resolvable) ==
  [op |-> op, ret |-> q.ret,
   ein |-> ein, nonce |-> nonce, person |-> person, adata |-> adata,
   n |-> n, resolvable |-> resolvable,
   buffer |-> q.buffer, wr |-> q.wr, copies |-> q.copies,
   ndig |-> q.ndig, nullUse |-> q.nullUse, failed |-> q.failed,
   hashed |-> q.hashed,
   news |-> q.news, frees |-> q.frees, heap |-> last.heap + q.news - q.frees]

Commit(q) ==
  /\ V' = q.V
  /\ C' = q.C
  /\ T' = q.T
  /\ eBuf' = q.eBuf
  /\ state' = q.state
  /\ CallCount' = q.CallCount
  /\ md_ctx' = q.md_ctx
  /\ alg_md' = q.alg_md
  /\ error_reason' = q.error_reason

\* ---------------------------------------------------------------- inputs
\* The calls a behaviour draws from.  failAt names the digest primitive call
\* of the operation that fails (0: none).
\* Instantiate: (ein, nonce, personalization, resolvable, failAt).
InstCalls ==
  { << <<1>>, <<7>>, <<>>, TRUE, 0 >>,
    << <<2, 3>>, <<7>>, <<9>>, TRUE, 0 >>,
    << <<1>>, <<7>>, <<>>, FALSE, 0 >>,
    << <<2, 3>>, <<7>>, <<9>>, TRUE, 8 >>,
    << <<1>>, <<7>>, <<>>, TRUE, 24 >> }
\* Reseed: (ein, additional input, failAt).
ResCalls ==
  { << <<4>>, <<>>, 0 >>,
    << <<6, 1>>, <<5>>, 0 >>,
    << <<6, 1>>, <<5>>, 8 >> }
\* Generate: (blen, additional input, failAt): nothing, less than one digest,
\* one digest, the largest request (several digests), one octet too many,
\* and failures while mixing, while emitting and while updating V; the
\* additional input absent, present, present with length 0 and absent with
\* a length stated all the same.
SomeAdata == Adata("buf", <<5>>)
EmptyAdata == Adata("buf", <<>>)
NullAdata == [ptr |-> NULL, bytes |-> <<>>, len |-> 1]
GenCalls ==
  { <<0, NoAdata, 0>>, <<1, EmptyAdata, 0>>, <<DigestLen, SomeAdata, 0>>,
    <<MaxBytes, NoAdata, 0>>,
    <<MaxBytes + 1, NoAdata, 0>>, <<DigestLen, NullAdata, 0>>,
    <<MaxBytes, SomeAdata, 5>>, <<MaxBytes, NoAdata, 5>>, <<0, NoAdata, 1>> }
\* The outcome of a primitive called on a NULL context is not defined.
UbSet == IF md_ctx.live THEN {FALSE} ELSE BOOLEAN

Init ==
  /\ V = Zeros(SeedLen)
  /\ C = Zeros(SeedLen)
  /\ T = Zeros(SeedLen)
  /\ eBuf = Zeros(DigestLen)
  /\ state = UNINITIALISED
  /\ CallCount = 0
  /\ md_ctx = [live |-> FALSE, h |-> 0]
  /\ alg_md = NULL
  /\ error_reason = ""
  /\ last = [op |-> "none", ret |-> "",
             ein |-> <<>>, nonce |-> <<>>, person |-> <<>>, adata |-> NoAdata,
             n |-> 0, resolvable |-> TRUE,
             buffer |-> <<>>, wr |-> {}, copies |-> <<>>,
             ndig |-> 0, nullUse |-> 0, failed |-> FALSE, hashed |-> <<>>,
             news |-> 0, frees |-> 0, heap |-> 0]
  /\ seededBy = "none"
  /\ gens = 0
  /\ nSeed = 0
  /\ nGen = 0

\* Every call, served or turned away, counts against its budget.
Seeding(op, ret) ==
  /\ nSeed' = nSeed + 1
  /\ seededBy' = IF ret = READY THEN op ELSE seededBy
  /\ gens' = IF ret = READY THEN 0 ELSE gens
  /\ UNCHANGED nGen

Instantiate ==
  /\ nSeed < MaxSeed
  /\ \E a \in InstCalls, ub \in UbSet :
       LET q == Inst(Call(0, a[5], ub), a[1], a[2], a[3], a[4])
       IN  /\ Commit(q)
           /\ last' = Record("Instantiate", q, a[1], a[2], a[3], NoAdata, 0, a[4])
           /\ Seeding("Instantiate", q.ret)

Reseed ==
  /\ nSeed < MaxSeed
  /\ \E a \in ResCalls, ub \in UbSet :
       LET q == Res(Call(0, a[3], ub), a[1], a[2])
       IN  /\ Commit(q)
           /\ last' = Record("Reseed", q, a[1], <<>>, <<>>, Adata("buf", a[2]), 0, TRUE)
           /\ Seeding("Reseed", q.ret)

Generate ==
  /\ nGen < MaxGen
  /\ \E a \in GenCalls, ub \in UbSet :
       LET q == Gen(Call(a[1], a[3], ub), a[1], a[2])
       IN  /\ Commit(q)
           /\ last' = Record("Generate", q, <<>>, <<>>, <<>>, a[2], a[1], TRUE)
           /\ nGen' = nGen + 1
           /\ gens' = IF q.ret = READY THEN gens + 1 ELSE gens
           /\ UNCHANGED <<seededBy, nSeed>>

Uninstantiate ==
  LET q == Cln(Call(0, 0, FALSE))
  IN  /\ Commit(q)
      /\ last' = Record("Uninstantiate", q, <<>>, <<>>, <<>>, NoAdata, 0, TRUE)
      /\ UNCHANGED <<seededBy, gens, nSeed, nGen>>

Next == Instantiate \/ Reseed \/ Generate \/ Uninstantiate

Spec == Init /\ [][Next]_vars

\* ================================================================ claims
\* What the specification says Hash_df computes (section 4.4): the first L
\* octets of HASH(1 || bits || S) || HASH(2 || bits || S) || ...
\* ceil(a / b)
CeilDiv(a, b) == (a + b - 1) \div b

\* HASH(lo || bits || S) || ... || HASH(hi || bits || S)
RECURSIVE RefBlocks(_, _, _, _)
RefBlocks(S, bits, lo, hi) ==
  IF lo > hi THEN <<>>
  ELSE IF lo = hi THEN HASH(<<lo>> \o bits \o S)
  ELSE RefBlocks(S, bits, lo, (lo + hi) \div 2)
         \o RefBlocks(S, bits, (lo + hi) \div 2 + 1, hi)

RefHash_df(S, L) ==
  SubSeq(RefBlocks(S, uint2BS(L * 8), 1, CeilDiv(L, DigestLen)), 1, L)

RECURSIVE SumSeq(_)
SumSeq(q) == IF q = <<>> THEN 0 ELSE Head(q) + SumSeq(Tail(q))

\* The return code and the first octet of Generate(1, no additional input)
\* on instance i.
NextOctet(i) ==
  LET q == Gen(CallOf(i, 1, 0, FALSE), 1, NoAdata)
  IN  <<q.ret, q.buffer[1]>>

\* C1: a Generate call made while the mode is UNINITIALISED, RESEED_REQUIRED
\* or ERROR returns RESEED_NEEDED (mode RESEED_REQUIRED) or STATE_INVALID
\* (otherwise) and leaves V, C, the reseed counter, the mode and the caller's
\* buffer as they were.
C1_GenerateRefused ==
  [][ (last'.op = "Generate" /\ state # READY) =>
        /\ last'.ret = (IF state = RESEED_REQUIRED THEN RESEED_NEEDED ELSE STATE_INVALID)
        /\ V' = V /\ C' = C /\ CallCount' = CallCount /\ state' = state
        /\ last'.wr = {}
        /\ last'.buffer = CallerBuffer(last'.n) ]_vars

C1_Witness ==
  /\ last.op = "Generate" /\ last.ret = RESEED_NEEDED
  /\ state = RESEED_REQUIRED /\ last.adata = SomeAdata

\* C2: a Generate call for more than MaxBytes octets on a READY instance
\* returns REQUEST_TOO_LARGE and changes neither V nor the reseed counter,
\* so Generate(1, nothing) gives afterwards what it would have given before.
C2_OversizeRefused ==
  [][ (last'.op = "Generate" /\ state = READY /\ last'.n > MaxBytes) =>
        /\ last'.ret = REQUEST_TOO_LARGE
        /\ V' = V /\ CallCount' = CallCount
        /\ NextOctet(Pctx') = NextOctet(Pctx)
        /\ NextOctet(Pctx)[1] = READY ]_vars

C2_Witness ==
  /\ last.op = "Generate" /\ last.ret = REQUEST_TOO_LARGE
  /\ last.n = MaxBytes + 1 /\ state = READY /\ gens >= 1

\* C3: a digest primitive that fails inside an operation leaves the mode
\* ERROR, and from mode ERROR every operation but the teardown fails and
\* leaves the mode ERROR.
C3_StickyError ==
  [][ /\ last'.failed => (state' = SP800_90ERROR /\ last'.ret = SP800_90ERROR)
      /\ (state = SP800_90ERROR /\ last'.op # "Uninstantiate") =>
           (state' = SP800_90ERROR /\ last'.ret \in {STATE_INVALID, SP800_90ERROR}) ]_vars

C3_Witness ==
  /\ state = SP800_90ERROR /\ error_reason = "Digest Final failed"
  /\ last.op = "Generate" /\ last.ret = STATE_INVALID

\* C4: a successful Generate(n) writes exactly the first n octets of the
\* caller's buffer: every round copies min(remaining, DigestLen) octets, the
\* copies add up to n and nothing at or behind offset n is written.
C4_ExactlyN ==
  (last.op = "Generate" /\ last.ret = READY) =>
    /\ last.wr = 1..last.n
    /\ SumSeq(last.copies) = last.n
    /\ \A k \in 1..Len(last.copies) :
         last.copies[k] = Min(last.n - (k - 1) * DigestLen, DigestLen)
    /\ Len(last.buffer) = last.n + Slack
    /\ \A k \in (last.n + 1)..(last.n + Slack) : last.buffer[k] = Sentinel

C4_Witness ==
  /\ last.op = "Generate" /\ last.ret = READY
  /\ last.n % DigestLen # 0 /\ Len(last.copies) >= 2

\* C5: after a successful (re)seed exactly ReseedInterval Generate calls
\* succeed, the last of them leaving the mode RESEED_REQUIRED; the call after
\* them returns RESEED_NEEDED; the first Generate after a Reseed succeeds and
\* leaves the reseed counter at 2.
C5_ReseedInterval ==
  [][ /\ state' = READY => gens' < ReseedInterval
      /\ state' = RESEED_REQUIRED => gens' = ReseedInterval
      /\ (last'.op = "Generate" /\ state = READY /\ ~last'.failed
            /\ last'.n <= MaxBytes) =>
           (last'.ret = READY /\ gens' = gens + 1 /\ gens' <= ReseedInterval)
      /\ (last'.op = "Generate" /\ state = RESEED_REQUIRED) =>
           (last'.ret = RESEED_NEEDED /\ gens' = ReseedInterval)
      /\ (last'.op = "Generate" /\ last'.ret = READY /\ gens = 0) =>
           CallCount' = 2 ]_vars

C5_Witness ==
  /\ last.op = "Generate" /\ last.ret = READY /\ CallCount = 2
  /\ seededBy = "Reseed" /\ gens = 1 /\ nGen = ReseedInterval + 1

\* C6: in mode READY the reseed counter is in 1..ReseedInterval.
C6_CounterRange ==
  state = READY => (1 <= CallCount /\ CallCount <= ReseedInterval)

C6_Witness ==
  state = READY /\ CallCount = ReseedInterval /\ last.op = "Generate"

\* C7: after a successful Instantiate(ein, nonce, personalization)
\* V = Hash_df(ein || nonce || personalization), C = Hash_df(0x00 || V), the
\* reseed counter is 1 and the mode READY, whatever the instance held before.
C7_Instantiate ==
  (last.op = "Instantiate" /\ last.ret = READY) =>
    /\ V = RefHash_df(last.ein \o last.nonce \o last.person, SeedLen)
    /\ C = RefHash_df(<<0>> \o V, SeedLen)
    /\ CallCount = 1
    /\ state = READY

C7_Witness ==
  /\ last.op = "Instantiate" /\ last.ret = READY
  /\ nSeed = 2 /\ nGen >= 1 /\ eBuf # Zeros(DigestLen)

\* C8: after a successful Reseed(ein, additional input) on working state
\* V_old, V = Hash_df(0x01 || V_old || ein || additional input),
\* C = Hash_df(0x00 || V), the reseed counter is 1 and the mode READY.
C8_Reseed ==
  [][ (last'.op = "Reseed" /\ last'.ret = READY) =>
        /\ V' = RefHash_df(<<1>> \o V \o last'.ein \o last'.adata.bytes, SeedLen)
        /\ C' = RefHash_df(<<0>> \o V', SeedLen)
        /\ CallCount' = 1
        /\ state' = READY ]_vars

C8_Witness ==
  /\ last.op = "Reseed" /\ last.ret = READY
  /\ last.adata.len > 0 /\ seededBy = "Reseed"

\* C9: after Uninstantiate, from any mode, V, C, T and eBuf are all zero, the
\* digest context is freed and the mode is UNINITIALISED.
C9_Teardown ==
  last.op = "Uninstantiate" =>
    /\ V = Zeros(SeedLen) /\ C = Zeros(SeedLen)
    /\ T = Zeros(SeedLen) /\ eBuf = Zeros(DigestLen)
    /\ ~md_ctx.live
    /\ state = UNINITIALISED

C9_Witness ==
  /\ last.op = "Uninstantiate" /\ nGen >= 1
  /\ error_reason = "Digest Final failed"

\* C10: on an instance that is UNINITIALISED (never instantiated, or torn
\* down and not instantiated since) Reseed and Generate return STATE_INVALID,
\* call no digest primitive and leave the instance as it was.
C10_AfterTeardown ==
  [][ (state = UNINITIALISED /\ last'.op \in {"Reseed", "Generate"}) =>
        /\ last'.ret = STATE_INVALID
        /\ last'.ndig = 0 /\ last'.nullUse = 0
        /\ Pctx' = Pctx ]_vars

C10_Witness ==
  /\ last.op = "Reseed" /\ last.ret = STATE_INVALID
  /\ state = UNINITIALISED /\ ~md_ctx.live /\ nGen >= 1

\* ---------------------------------------------------------------- C11
\* A second instance for the call just made: Stale(i) holds the V, C, reseed
\* counter and mode of i and other leftovers in T, eBuf, the digest context
\* and the diagnostic; Other is an instance that was never instantiated and
\* holds leftovers everywhere.
Stale(i) ==
  [i EXCEPT !.T = Fill(SeedLen, Sentinel), !.eBuf = Fill(DigestLen, Sentinel),
            !.md_ctx.h = 1, !.error_reason = "stale"]

Other ==
  [V |-> Fill(SeedLen, Sentinel), C |-> Fill(SeedLen, Sentinel),
   T |-> Fill(SeedLen, Sentinel), eBuf |-> Fill(DigestLen, Sentinel),
   state |-> UNINITIALISED, CallCount |-> 0,
   md_ctx |-> [live |-> FALSE, h |-> 0], alg_md |-> NULL,
   error_reason |-> "stale"]

\* The digest primitive call that failed in the call just made (0: none).
FailedAt == IF last'.failed THEN last'.ndig ELSE 0

\* The second instance after the call just made: Generate and Reseed on
\* Stale(Pctx), Instantiate on Other.
Twin ==
  CASE last'.op = "Generate" ->
         Gen(CallOf(Stale(Pctx), last'.n, FailedAt, FALSE), last'.n, last'.adata)
    [] last'.op = "Reseed" ->
         Res(CallOf(Stale(Pctx), 0, FailedAt, FALSE), last'.ein, last'.adata.bytes)
    [] OTHER ->
         Inst(CallOf(Other, 0, FailedAt, FALSE),
              last'.ein, last'.nonce, last'.person, last'.resolvable)

\* C11: an instance that differs from this one only in what is left in T,
\* eBuf, the digest context and the diagnostic answers every Reseed and
\* Generate call with the same return code and the same octets and, unless
\* the call ends in ERROR, holds the same V, C, reseed counter and mode
\* afterwards; and Instantiate with the same (ein, nonce, personalization) on
\* an instance never used before gives the V, C and reseed counter it gives
\* here.
C11_Determinism ==
  [][ (\/ last'.op \in {"Generate", "Reseed"}
       \/ last'.op = "Instantiate" /\ state # SP800_90ERROR) =>
        \A q \in {Twin} :
            /\ q.ret = last'.ret
            /\ q.buffer = last'.buffer
            /\ last'.ret # SP800_90ERROR =>
                 (q.V = V' /\ q.C = C' /\ q.CallCount = CallCount'
                    /\ q.state = state') ]_vars

C11_Witness ==
  /\ last.op = "Generate" /\ last.ret = READY /\ last.n = MaxBytes
  /\ seededBy = "Reseed" /\ gens = 2 /\ eBuf # Zeros(DigestLen)

\* ------------------------------------------------------- Hash_df alone
\* Hash_df applied to byte stacks and output lengths of its own, on the
\* instance as SHA_Instantiate holds it when it calls Hash_df first: V
\* cleared, the digest resolved, the digest context allocated.  The
\* derivation advances one round of the loop at a time; last holds the
\* locals of Hash_df (counter, digestL, what is left of outl, how far out has
\* moved) and the bookkeeping of the call.
\* The longest output the one octet counter can number.
DfMax == 255 * DigestLen
\* The digest primitive calls of a derivation that may be made to fail.
DfFailMax == 9

DfStacks ==
  { <<>>, << <<5>> >>, << <<1>>, <<7>>, <<>> >>, << <<>>, <<2, 3>> >>,
    << <<0>>, <<0, 0, 255>> >> }

DfLengths == (0..(2 * DigestLen + 1)) \cup {DfMax - 1, DfMax}

RECURSIVE DsFrom(_, _)
DsFrom(ds, fs) ==
  IF fs = <<>> THEN ds
  ELSE DsFrom(DS_Append(ds, Len(Head(fs)), Lit(Head(fs))), Tail(fs))

RECURSIVE Flat(_)
Flat(fs) == IF fs = <<>> THEN <<>> ELSE Head(fs) \o Flat(Tail(fs))

InitDf ==
  /\ V = Zeros(SeedLen)
  /\ C = Zeros(SeedLen)
  /\ T = Zeros(SeedLen)
  /\ eBuf = Zeros(DigestLen)
  /\ state = UNINITIALISED
  /\ CallCount = 0
  /\ md_ctx = [live |-> TRUE, h |-> 0]
  /\ alg_md = "md"
  /\ error_reason = ""
  /\ \E fs \in DfStacks, outl \in DfLengths, failAt \in 0..DfFailMax :
       last = [op |-> "Hash_df", pc |-> "call", in |-> fs, outl |-> outl,
               failAt |-> failAt, buffer |-> CallerBuffer(outl),
               hashed |-> <<>>, ndig |-> 0, failed |-> FALSE,
               left |-> 0, off |-> 0, counter |-> 0, digestL |-> 0]
  /\ seededBy = "none"
  /\ gens = 0
  /\ nSeed = 0
  /\ nGen = 0

\* The call in progress: the instance and the bookkeeping so far.
DfCallNow ==
  [Call(last.outl, last.failAt, FALSE) EXCEPT
     !.buffer = last.buffer, !.hashed = last.hashed, !.ndig = last.ndig,
     !.failed = last.failed]

\* Hash_df(pctx, &in, buffer, outl): counter = 1, digestL = 0
DeriveCall ==
  /\ last.op = "Hash_df" /\ last.pc = "call"
  /\ last' = [last EXCEPT !.pc = "loop", !.left = last.outl, !.off = 0,
                          !.counter = 1, !.digestL = 0]
  /\ UNCHANGED <<V, C, T, eBuf, state, CallCount, md_ctx, alg_md,
                 error_reason, seededBy, gens, nSeed, nGen>>

\* One round of while(outl > 0): the digest, the copy, counter++, or the
\* return a failed primitive makes.
DeriveRound ==
  /\ last.op = "Hash_df" /\ last.pc = "loop" /\ last.left > 0
  /\ LET q == HashDfRound(DfCallNow,
                          HashDfIn(DsFrom(DS_Init, last.in), last.outl),
                          "buffer", last.off, last.left, last.counter)
     IN  /\ Commit(q)
         /\ last' = IF q.rc # 1
                    THEN [last EXCEPT !.pc = "done", !.buffer = q.buffer,
                                      !.hashed = q.hashed, !.ndig = q.ndig,
                                      !.failed = q.failed]
                    ELSE [last EXCEPT !.buffer = q.buffer,
                                      !.hashed = q.hashed, !.ndig = q.ndig,
                                      !.failed = q.failed,
                                      !.off = @ + Min(last.left, DigestLen),
                                      !.left = @ - Min(last.left, DigestLen),
                                      !.counter = (@ + 1) % 256,
                                      !.digestL = DigestLen]
  /\ UNCHANGED <<seededBy, gens, nSeed, nGen>>

\* memset(pctx->T, 0, digestL); return
DeriveReturn ==
  /\ last.op = "Hash_df" /\ last.pc = "loop" /\ last.left = 0
  /\ T' = memset0(T, last.digestL)
  /\ last' = [last EXCEPT !.pc = "done"]
  /\ UNCHANGED <<V, C, eBuf, state, CallCount, md_ctx, alg_md, error_reason,
                 seededBy, gens, nSeed, nGen>>

NextDf == DeriveCall \/ DeriveRound \/ DeriveReturn

SpecDf == InitDf /\ [][NextDf]_vars

\* C12: for a byte stack S and an output length L of at most 255 digest
\* lengths Hash_df writes L octets, the first L of HASH(1 || bits || S) ||
\* HASH(2 || bits || S) || ..., and nothing behind them; it digests
\* ceil(L / digest length) messages, the i-th being i || bits || S, so that
\* the messages differ in their first octet only.
C12_HashDf ==
  (last.op = "Hash_df" /\ last.pc = "done" /\ ~last.failed) =>
    /\ SubSeq(last.buffer, 1, last.outl) = RefHash_df(Flat(last.in), last.outl)
    /\ Len(last.buffer) = last.outl + Slack
    /\ \A k \in (last.outl + 1)..(last.outl + Slack) : last.buffer[k] = Sentinel
    /\ Len(last.hashed) = CeilDiv(last.outl, DigestLen)
    /\ \A i \in 1..Len(last.hashed) :
         last.hashed[i] = <<i>> \o uint2BS(last.outl * 8) \o Flat(last.in)

C12_Witness ==
  /\ last.op = "Hash_df" /\ last.pc = "done" /\ ~last.failed
  /\ last.outl = DfMax - 1 /\ Len(last.in) = 3

\* -------------------------------------------------------- the profiles
\* The five SP800_90PRNG_t records, field by field as their initializers
\* give them: (1<<n) is 2^n, 0x00FFFFFF is 16777215.
PRNG(type, seedlen, OBL, strengths, digest, fips) ==
  [type |-> type, seedlen |-> seedlen,
   maxNonce |-> 2^27, maxPers |-> 2^27, maxAAD |-> 2^27,
   maxBytes |-> 2^11, maxCalls |-> 16777215,
   OBL |-> OBL, maxEnt |-> 2^27, strengths |-> strengths,
   specific |-> digest, name |-> digest, hasDF |-> 1, fips |-> fips]

sha512PRNG ==
  PRNG("SP800_SHA512", 888 \div 8, 512 \div 8, <<112, 128, 192, 256>>,
       "SHA512", "SP800_IS_FIPS")

sha384PRNG ==
  PRNG("SP800_SHA384", 888 \div 8, 384 \div 8, <<112, 128, 192, 256>>,
       "SHA384", "SP800_IS_FIPS")

sha256PRNG ==
  PRNG("SP800_SHA256", 440 \div 8, 256 \div 8, <<112, 128, 192, 256>>,
       "SHA256", "SP800_IS_FIPS")

sha224PRNG ==
  PRNG("SP800_SHA224", 440 \div 8, 224 \div 8, <<112, 128, 192, 256>>,
       "SHA224", "SP800_IS_FIPS")

\* sha1PRNG flagged as an approved mode.
sha1PRNG_Fips ==
  PRNG("SP800_SHA1", 440 \div 8, 160 \div 8, <<112, 128, 0, 0>>,
       "SHA1", "SP800_IS_FIPS")

sha1PRNG ==
  PRNG("SP800_SHA1", 440 \div 8, 160 \div 8, <<112, 128, 0, 0>>,
       "SHA1", "SP800_NON_FIPS")

PRNGs == {sha1PRNG, sha224PRNG, sha256PRNG, sha384PRNG, sha512PRNG}

\* The derivations of an instance of each profile: the control of Hash_df
\* (outl, counter, digestL and how far out has moved) for the two calls
\* SHA_Instantiate makes and the two SHA_ReSeed makes, in the order the
\* methods make them.  site is the source line of the call, 0 between the
\* methods; seeded says that SHA_Instantiate has run.
\* The length the call sites ask for, in bits.
SiteOutl_Bits(prng) == prng.seedlen * 8

\* Hash_df(pctx, &seedDS, ..., pctx->prng->seedlen)
SiteOutl(prng) == prng.seedlen

NextSite(site, seeded) ==
  CASE site = 130 -> 135
    [] site = 167 -> 178
    [] site = 0 /\ ~seeded -> 130
    [] site = 0 /\ seeded -> 167
    [] OTHER -> 0

InitProfiles ==
  /\ V = Zeros(SeedLen)
  /\ C = Zeros(SeedLen)
  /\ T = Zeros(SeedLen)
  /\ eBuf = Zeros(DigestLen)
  /\ state = UNINITIALISED
  /\ CallCount = 0
  /\ md_ctx = [live |-> FALSE, h |-> 0]
  /\ alg_md = NULL
  /\ error_reason = ""
  /\ \E prng \in PRNGs :
       last = [op |-> "profile", prng |-> prng, site |-> 0, seeded |-> FALSE,
               pc |-> "idle", outl |-> 0, counter |-> 0, digestL |-> 0,
               off |-> 0, rounds |-> 0]
  /\ seededBy = "none"
  /\ gens = 0
  /\ nSeed = 0
  /\ nGen = 0

Frame == UNCHANGED <<V, C, T, eBuf, state, CallCount, md_ctx, alg_md,
                     error_reason, seededBy, gens, nSeed, nGen>>

\* The call: counter = 1, digestL = 0, outl as the site gives it.
DfCall ==
  /\ last.op = "profile" /\ last.pc = "idle"
  /\ NextSite(last.site, last.seeded) # 0
  /\ last' = [last EXCEPT !.site = NextSite(last.site, last.seeded),
                          !.pc = "loop", !.outl = SiteOutl(last.prng),
                          !.counter = 1, !.digestL = 0, !.off = 0,
                          !.rounds = 0]
  /\ Frame

\* while(outl > 0) { T = digest of the stack; digestL = the digest's length
DfDigest ==
  /\ last.op = "profile" /\ last.pc = "loop" /\ last.outl > 0
  /\ last' = [last EXCEPT !.pc = "copy", !.digestL = last.prng.OBL]
  /\ Frame

\* j = (outl > digestL) ? digestL : outl; out += j; outl -= j; counter++ }
DfCopy ==
  /\ last.op = "profile" /\ last.pc = "copy"
  /\ last' = [last EXCEPT !.pc = "loop",
                          !.off = @ + Min(last.outl, last.digestL),
                          !.outl = @ - Min(last.outl, last.digestL),
                          !.counter = (@ + 1) % 256,
                          !.rounds = @ + 1]
  /\ Frame

\* return; the method goes on to its next call or returns itself.
DfReturn ==
  /\ last.op = "profile" /\ last.pc = "loop" /\ last.outl = 0
  /\ last' = [last EXCEPT !.pc = "idle",
                          !.seeded = @ \/ last.site = 135,
                          !.site = IF last.site \in {135, 178} THEN 0 ELSE @]
  /\ Frame

NextProfiles == DfCall \/ DfDigest \/ DfCopy \/ DfReturn

SpecProfiles == InitProfiles /\ [][NextProfiles]_vars

\* What the specification says of a profile (section 3).
Stated(prng) ==
  /\ prng.seedlen = (IF prng.specific \in {"SHA1", "SHA224", "SHA256"}
                     THEN 55 ELSE 111)
  /\ prng.maxBytes = 2^11
  /\ prng.maxCalls = 2^24 - 1
  /\ prng.specific = "SHA1" =>
       (prng.strengths = <<112, 128, 0, 0>> /\ prng.fips = "SP800_NON_FIPS")
  /\ prng.specific # "SHA1" =>
       (prng.strengths = <<112, 128, 192, 256>> /\ prng.fips = "SP800_IS_FIPS")

\* C13: the five profile records are those of SHA-1, SHA-224, SHA-256,
\* SHA-384 and SHA-512; seedlen is 55 for the first three and 111 for the
\* last two, the largest request is 2^11 octets and the reseed interval
\* 2^24 - 1 in all of them, SHA-1 lists the strengths 112 and 128 only and
\* is the only one not flagged as an approved mode; the profile an instance
\* runs on is one of them.
C13_Profiles ==
  /\ {prng.specific : prng \in PRNGs} = {"SHA1", "SHA224", "SHA256", "SHA384", "SHA512"}
  /\ Cardinality(PRNGs) = 5
  /\ \A prng \in PRNGs : Stated(prng)
  /\ last.op = "profile" => (last.prng \in PRNGs /\ Stated(last.prng))

C13_Witness ==
  /\ last.op = "profile" /\ last.prng.specific = "SHA1"
  /\ last.prng.fips = "SP800_NON_FIPS" /\ last.prng.strengths[3] = 0
  /\ last.site = 178 /\ last.outl = 0 /\ last.off = 55

\* ------------------------------------------------------------ Generate
\* (a + b) mod 2^(8 * seedlen) for a seedlen octets wide and b at most as
\* wide, both big endian.
Plus(a, b) == Add(a, SeedLen, Zeros(SeedLen - Len(b)) \o b, 0)

\* HASH(data) || HASH(data + 1) || ..., k digests.
RECURSIVE RefHashgen(_, _)
RefHashgen(data, k) ==
  IF k = 0 THEN <<>> ELSE HASH(data) \o RefHashgen(Plus(data, <<1>>), k - 1)

\* data, data + 1, ..., k values.
RECURSIVE RefData(_, _)
RefData(data, k) ==
  IF k = 0 THEN <<>> ELSE <<data>> \o RefData(Plus(data, <<1>>), k - 1)

\* The digests the step just taken needed for its n octets, and whether it
\* digested one message more than those and the last one.
Rounds == CeilDiv(last'.n, DigestLen)
Mixed == Len(last'.hashed) = Rounds + 2

\* V after the mixing of the step just taken, if it mixed.
Vmixed ==
  IF Mixed THEN Plus(V, HASH(<<2>> \o V \o last'.adata.bytes)) ELSE V

\* C14: a successful Generate(n, ai) returns the first n octets of
\* HASH(V') || HASH(V' + 1) || ..., V' being V after the mixing of ai if there
\* was one; the messages digested for them are V', V' + 1, ... and the
\* message digested after them is 0x03 || V': the loop has left V at V'.
C14_Hashgen ==
  [][ (last'.op = "Generate" /\ last'.ret = READY) =>
        \A v \in {Vmixed} :
          /\ Len(last'.hashed) \in {Rounds + 1, Rounds + 2}
          /\ SubSeq(last'.buffer, 1, last'.n)
               = SubSeq(RefHashgen(v, Rounds), 1, last'.n)
          /\ SubSeq(last'.hashed, Len(last'.hashed) - Rounds,
                    Len(last'.hashed) - 1) = RefData(v, Rounds)
          /\ last'.hashed[Len(last'.hashed)] = <<3>> \o v ]_vars

C14_Witness ==
  /\ last.op = "Generate" /\ last.ret = READY /\ last.n = MaxBytes
  /\ Len(last.hashed) = CeilDiv(MaxBytes, DigestLen) + 1 /\ gens = 2

\* C15: after a successful Generate(n, ai), n = 0 included, V is
\* V' + HASH(0x03 || V') + C + reseed counter mod 2^(8 * seedlen), V' being V
\* after the mixing of ai if there was one, the digest tail aligned, the
\* reseed counter the one held before the call as 4 octets, most significant
\* first; C is as it was.
C15_Update ==
  [][ (last'.op = "Generate" /\ last'.ret = READY) =>
        \A v \in {Vmixed} :
          /\ V' = Plus(Plus(Plus(v, HASH(<<3>> \o v)), C), uint2BS(CallCount))
          /\ C' = C ]_vars

C15_Witness ==
  /\ last.op = "Generate" /\ last.ret = READY /\ last.n = 0
  /\ gens = 2 /\ seededBy = "Reseed"

\* The V the step just taken handed on from the mixing: the message it
\* digested last is 0x03 || that V.
Vgen == Tail(last'.hashed[Len(last'.hashed)])

\* C16 as stated: Generate mixes the additional input into V exactly when
\* its length is above 0, V becoming V + HASH(0x02 || V || additional input)
\* before Hashgen and staying as it is otherwise; the length alone decides.
C16_LengthOnly ==
  [][ (last'.op = "Generate" /\ last'.ret = READY) =>
        Vgen = (IF last'.adata.len > 0
                THEN Plus(V, HASH(<<2>> \o V \o last'.adata.bytes))
                ELSE V) ]_vars

\* C16, amended: Generate mixes the additional input into V exactly when its
\* pointer is not NULL and its length is above 0: V then becomes
\* V + HASH(0x02 || V || additional input) before Hashgen, the message
\* digested first being 0x02 || V || additional input, and V goes to Hashgen
\* as it is otherwise; the pointer and the length alone decide.
C16_Mixing ==
  [][ (last'.op = "Generate" /\ last'.ret = READY) =>
        IF last'.adata.ptr # NULL /\ last'.adata.len > 0
        THEN /\ Len(last'.hashed) = Rounds + 2
             /\ last'.hashed[1] = <<2>> \o V \o last'.adata.bytes
             /\ Vgen = Plus(V, HASH(<<2>> \o V \o last'.adata.bytes))
        ELSE /\ Len(last'.hashed) = Rounds + 1
             /\ Vgen = V ]_vars

C16_Witness ==
  /\ last.op = "Generate" /\ last.ret = READY
  /\ last.adata.ptr = NULL /\ last.adata.len > 0 /\ gens = 2


\* ---------------------------------------------------- Hash_df's scratch
\* C17: whenever Hash_df has returned, on its normal return and on each
\* return taken after a failed EVP_DigestInit, EVP_DigestUpdate or
\* EVP_DigestFinal, the scratch T that held the last digest block is zero.
C17_TCleared ==
  (last.op = "Hash_df" /\ last.pc = "done") => T = Zeros(SeedLen)


\* ------------------------------------------------- unresolvable digest
\* C18: Instantiate that reaches SHA_Instantiate on a profile whose digest
\* name EVP_get_digestbyname does not resolve returns ERROR, leaves the mode
\* ERROR and the reason set, allocates no digest context, digests nothing
\* (Hash_df does not run) and leaves C as it was.
C18_BadHashId ==
  [][ (last'.op = "Instantiate" /\ ~last'.resolvable /\ state # SP800_90ERROR) =>
        /\ last'.ret = SP800_90ERROR
        /\ state' = SP800_90ERROR
        /\ error_reason' = "Could not obtain digest"
        /\ alg_md' = NULL
        /\ md_ctx' = md_ctx
        /\ last'.ndig = 0 /\ last'.nullUse = 0 /\ last'.hashed = <<>>
        /\ C' = C ]_vars

\* The name fails to resolve on an instance seeded before: C is not zero.
C18_Witness ==
  /\ last.op = "Instantiate" /\ ~last.resolvable /\ last.ret = SP800_90ERROR
  /\ seededBy = "Instantiate" /\ C # Zeros(SeedLen) /\ md_ctx.live


\* ------------------------------------------------- the counter's range
\* C19: on each of the five profiles every derivation SHA_Instantiate and
\* SHA_ReSeed start asks for seedlen octets, which is at most 255 digest
\* lengths; the counter octet is 1 at the first round and one more after
\* each, so it stays within 1..ceil(seedlen / digest length) + 1, is at
\* most 4 and is never carried round to 0.
C19_CounterRange ==
  (last.op = "profile" /\ last.pc \in {"loop", "copy"}) =>
    /\ last.site \in {130, 135, 167, 178}
    /\ last.outl + last.off = last.prng.seedlen
    /\ last.prng.seedlen <= 255 * last.prng.OBL
    /\ last.counter = last.rounds + 1
    /\ last.counter \in 1..(CeilDiv(last.prng.seedlen, last.prng.OBL) + 1)
    /\ last.counter <= 4
    /\ last.counter # 0

\* The last derivation of a reseed on SHA-384 is complete: three rounds.
C19_Witness ==
  /\ last.op = "profile" /\ last.pc = "loop" /\ last.site = 178
  /\ last.prng.specific = "SHA384" /\ last.outl = 0 /\ last.off = 111
  /\ last.counter = 4


\* ------------------------------------------------- the digest context
\* C20: over any sequence of calls on an instance at most one digest
\* context is allocated at a time, exactly when the instance holds one, and
\* none is released twice: only Instantiate allocates, and only when the
\* instance holds none, else it keeps the one held; only Uninstantiate
\* releases, and only a context that is held and allocated, after which the
\* instance holds none; an Uninstantiate right after another releases
\* nothing.
C20_OneContext ==
  [][ /\ last'.heap \in {0, 1}
      /\ (last'.heap = 1) <=> md_ctx'.live
      /\ last'.news + last'.frees <= 1
      /\ last'.news = 1 =>
           (last'.op = "Instantiate" /\ ~md_ctx.live /\ last.heap = 0)
      /\ (last'.op = "Instantiate" /\ md_ctx.live) =>
           (last'.news = 0 /\ md_ctx'.live)
      /\ last'.frees = 1 =>
           (last'.op = "Uninstantiate" /\ md_ctx.live /\ last.heap = 1)
      /\ last'.op = "Uninstantiate" =>
           (~md_ctx'.live /\ last'.frees = (IF md_ctx.live THEN 1 ELSE 0))
      /\ (last.op = "Uninstantiate" /\ last'.op = "Uninstantiate") =>
           last'.frees = 0 ]_vars

\* After two Instantiate calls, one of them served, an Uninstantiate that
\* finds the context released already.
C20_Witness ==
  /\ last.op = "Uninstantiate" /\ last.frees = 0 /\ last.heap = 0
  /\ nSeed = 2 /\ seededBy = "Instantiate" /\ last.ret = UNINITIALISED

====
